---- MODULE Spec2Model ----
(***************************************************************************)
(* Model of wlcs' in-process test harness (src/in_process_server.cpp):     *)
(* Server / InProcessServer lifecycle, Client construction and the         *)
(* dispatch loop, Surface frame callbacks and ShmBuffer release listeners. *)
(***************************************************************************)
EXTENDS Integers, Sequences, FiniteSets, TLC

\* ---------------------------------------------------------------- bounds
MaxCycles == 2
MaxProxies == 5
MaxSurfaces == 2
MaxCallbacks == 2
MaxNotifiers == 3
MaxReleases == 2

\* ------------------------------------------------------------- constants
EPROTO == 71
EPIPE == 32
InvalidFd == -1
ValidFd == 3

ErrnoValues == {0, EPIPE, EPROTO}
ProtocolInterfaces == {"wl_buffer", "wl_shm"}
ProtocolCodes == {0, 1}
WellKnownGlobals == {"wl_shm", "wl_compositor", "wl_shell"}
AnnouncedInterfaces == WellKnownGlobals \cup {"wl_output"}
Predicates == {"always", "never", "buffer_consumed"}

\* What a failing wl_display_dispatch / wl_display_roundtrip leaves in the
\* display: an error code, and for EPROTO the offending interface and code.
Faults ==
    {[err |-> e, interface |-> "none", code |-> 0] : e \in ErrnoValues \ {EPROTO}}
    \cup {[err |-> EPROTO, interface |-> i, code |-> c] :
              i \in ProtocolInterfaces, c \in ProtocolCodes}

\* ----------------------------------------------------------------- errors
NoError == [kind |-> "none", interface |-> "none", code |-> 0]
LogicError == [kind |-> "logic_error", interface |-> "none", code |-> 0]
RuntimeError == [kind |-> "runtime_error", interface |-> "none", code |-> 0]
ShimNotImplemented == [kind |-> "ShimNotImplemented", interface |-> "none", code |-> 0]
SystemError(err) == [kind |-> "system_error", interface |-> "none", code |-> err]
ProtocolError(interface, code) == [kind |-> "ProtocolError", interface |-> interface, code |-> code]

VARIABLES
    \* the shim's (weak) symbols
    has_start, has_stop, has_create_socket,
    \* wlcs::Server::Impl / InProcessServer
    server_state, server_log, server_error,
    \* wlcs::Client::Impl
    client_state, display, display_error, protocol_error, proxies,
    registry, shm, compositor, shell, shell_surface,
    ctor_log, dtor_log, client_error, advertised, socket_call,
    \* dispatch_until
    du_pc, predicate, du_error, call_cycles, last_eval,
    call_faults, invoked_after_fault,
    \* wlcs::Surface::Impl
    surfaces, callbacks, pending_callback, buffer_consumed,
    \* wlcs::ShmBuffer::Impl
    buffer_state, release_notifiers, notifiers_added, releases, last_release,
    returned_false,
    \* the process
    crashed

shim_vars == <<has_start, has_stop, has_create_socket>>
server_vars == <<server_state, server_log, server_error>>
client_vars == <<client_state, display, proxies, registry, shm, compositor,
                 shell, shell_surface, ctor_log, dtor_log, client_error, advertised,
                 socket_call>>
fault_vars == <<display_error, protocol_error>>
dispatch_vars == <<du_pc, predicate, du_error, call_cycles, last_eval,
                   call_faults, invoked_after_fault>>
surface_vars == <<surfaces, callbacks, pending_callback, buffer_consumed>>
buffer_vars == <<buffer_state, release_notifiers, notifiers_added, releases, last_release,
                 returned_false>>
vars == <<shim_vars, server_vars, client_vars, fault_vars, dispatch_vars,
          surface_vars, buffer_vars, crashed>>

\* ------------------------------------------------------- wlcs::Server::Impl
\* ValidateShim with the wlcs_server_stop check left out.
ValidateShimStartOnly(start_present, stop_present) ==
    IF ~start_present THEN LogicError ELSE NoError

\* Server::Impl::Impl body: the two mandatory shim operations must be present.
ValidateShim(start_present, stop_present) ==
    IF ~start_present THEN LogicError
    ELSE IF ~stop_present THEN LogicError
    ELSE NoError

\* InProcessServer::InProcessServer -> Server::Server -> Server::Impl::Impl.
\* The `server` member (unique_ptr with wlcs_destroy_server as deleter) is
\* initialised before the body runs; a throw from the body destroys it.
ServerConstruct ==
    /\ ~crashed
    /\ server_state = "unborn"
    /\ LET created == Append(server_log, "create")
           err == ValidateShim(has_start, has_stop)
       IN IF err # NoError
          THEN /\ server_log' = Append(created, "destroy")
               /\ server_state' = "failed"
               /\ server_error' = err
          ELSE /\ server_log' = created
               /\ server_state' = "constructed"
               /\ server_error' = NoError
    /\ UNCHANGED <<shim_vars, client_vars, fault_vars, dispatch_vars,
                   surface_vars, buffer_vars, crashed>>

\* Server::Impl::start: wlcs_server_start(server.get())
Start(log) == Append(log, "start")

\* Stop that does not reach wlcs_server_stop.
StopSkipped(log) == log

\* Server::Impl::stop: wlcs_server_stop(server.get())
Stop(log) == Append(log, "stop")

\* InProcessServer::SetUp -> Server::start
SetUp ==
    /\ ~crashed
    /\ server_state = "constructed"
    /\ server_log' = Start(server_log)
    /\ server_state' = "started"
    /\ UNCHANGED <<server_error, shim_vars, client_vars, fault_vars, dispatch_vars,
                   surface_vars, buffer_vars, crashed>>

\* The objects of the test body are locals of the test: gone before TearDown.
TestBodyDone ==
    /\ client_state \in {"none", "failed", "destroyed"}
    /\ \A i \in 1..Len(surfaces) : surfaces[i].state = "destroyed"
    /\ buffer_state # "live"

\* InProcessServer::TearDown -> Server::stop
TearDown ==
    /\ ~crashed
    /\ server_state = "started"
    /\ TestBodyDone
    /\ server_log' = Stop(server_log)
    /\ server_state' = "stopped"
    /\ UNCHANGED <<server_error, shim_vars, client_vars, fault_vars, dispatch_vars,
                   surface_vars, buffer_vars, crashed>>

\* Server::~Server: the unique_ptr member runs wlcs_destroy_server.
ServerDestroy ==
    /\ ~crashed
    /\ server_state = "stopped"
    /\ server_log' = Append(server_log, "destroy")
    /\ server_state' = "destroyed"
    /\ UNCHANGED <<server_error, shim_vars, client_vars, fault_vars, dispatch_vars,
                   surface_vars, buffer_vars, crashed>>

\* CreateClientSocket treating a missing shim operation as an I/O failure.
CreateClientSocketHardFail(fd, errno) ==
    IF has_create_socket /\ fd >= 0
    THEN [fd |-> fd, error |-> NoError]
    ELSE [fd |-> fd, error |-> SystemError(errno)]

\* CreateClientSocket without the `fd < 0` check.
CreateClientSocketUnchecked(fd, errno) ==
    IF has_create_socket
    THEN [fd |-> fd, error |-> NoError]
    ELSE [fd |-> InvalidFd, error |-> ShimNotImplemented]

\* Server::Impl::create_client_socket: the descriptor or the exception.
CreateClientSocket(fd, errno) ==
    IF has_create_socket
    THEN IF fd < 0
         THEN [fd |-> fd, error |-> SystemError(errno)]
         ELSE [fd |-> fd, error |-> NoError]
    ELSE [fd |-> InvalidFd, error |-> ShimNotImplemented]

\* ThrowWaylandError with the EPROTO test inverted.
ThrowWaylandErrorSwapped(err, perr) ==
    IF err = EPROTO
    THEN SystemError(err)
    ELSE ProtocolError(perr.interface, perr.code)

\* ------------------------------------------------------ throw_wayland_error
ThrowWaylandError(err, perr) ==
    IF err # EPROTO
    THEN SystemError(err)
    ELSE ProtocolError(perr.interface, perr.code)

\* The display's sticky last error after a failing dispatch or round-trip.
FaultedError(fault) == IF display_error # 0 THEN display_error ELSE fault.err
FaultedProtocolError(fault) ==
    IF display_error # 0 THEN protocol_error
    ELSE [interface |-> fault.interface, code |-> fault.code]

\* ------------------------------------------------------ wlcs::Client::Impl
NewProxy(type) == [type |-> type, destroyed |-> 0]

\* What wlcs_server_create_client_socket returned, if it was called.
NoSocketCall == [called |-> FALSE, fd |-> 0, errno |-> 0]

\* Client::Impl::Impl up to the call of server_roundtrip().
ClientConstruct ==
    /\ ~crashed
    /\ server_state = "started"
    /\ client_state = "none"
    /\ \E fd \in {InvalidFd, ValidFd}, errno \in ErrnoValues \ {0}, connected \in BOOLEAN :
        LET sock == CreateClientSocket(fd, errno)
            fallback == sock.error = ShimNotImplemented
        IN /\ socket_call' = IF has_create_socket
                             THEN [called |-> TRUE, fd |-> fd,
                                   errno |-> IF fd < 0 THEN errno ELSE 0]
                             ELSE NoSocketCall
           /\ IF sock.error # NoError /\ ~fallback
              THEN \* create_client_socket threw something the constructor does not catch
                   /\ client_state' = "failed"
                   /\ client_error' = sock.error
                   /\ UNCHANGED <<display, proxies, registry, ctor_log>>
              ELSE IF ~connected
              THEN \* wl_display_connect_to_fd / wl_display_connect returned NULL
                   /\ client_state' = "failed"
                   /\ client_error' = RuntimeError
                   /\ ctor_log' = <<IF fallback THEN "connect_ambient" ELSE "connect_fd">>
                   /\ UNCHANGED <<display, proxies, registry>>
              ELSE /\ display' = "live"
                   /\ proxies' = Append(proxies, NewProxy("wl_registry"))
                   /\ registry' = Len(proxies) + 1
                   /\ ctor_log' = <<IF fallback THEN "connect_ambient" ELSE "connect_fd",
                                    "get_registry", "add_listener">>
                   /\ client_state' = "roundtrip"
                   /\ client_error' = NoError
    /\ UNCHANGED <<shm, compositor, shell, shell_surface, dtor_log, advertised,
                   shim_vars, server_vars, fault_vars, dispatch_vars,
                   surface_vars, buffer_vars, crashed>>

\* server_roundtrip() of the constructor returns without a fault.
RoundtripOk ==
    /\ ~crashed
    /\ client_state = "roundtrip"
    /\ display_error = 0
    /\ client_state' = "ready"
    /\ ctor_log' = Append(ctor_log, "roundtrip")
    /\ UNCHANGED <<socket_call, display, proxies, registry, shm, compositor, shell, shell_surface,
                   dtor_log, client_error, advertised,
                   shim_vars, server_vars, fault_vars, dispatch_vars,
                   surface_vars, buffer_vars, crashed>>

\* server_roundtrip() of the constructor faults: the constructor throws, and
\* no destructor runs for the half-built Impl.
RoundtripFault ==
    /\ ~crashed
    /\ client_state = "roundtrip"
    /\ \E fault \in Faults :
        /\ display_error' = FaultedError(fault)
        /\ protocol_error' = FaultedProtocolError(fault)
        /\ client_error' = ThrowWaylandError(display_error', protocol_error')
    /\ client_state' = "failed"
    /\ UNCHANGED <<socket_call, display, proxies, registry, shm, compositor, shell, shell_surface,
                   ctor_log, dtor_log, advertised,
                   shim_vars, server_vars, dispatch_vars,
                   surface_vars, buffer_vars, crashed>>

\* Listeners run only inside wl_display_roundtrip / wl_display_dispatch,
\* and a display in the fatal error state dispatches nothing.
InDispatch ==
    /\ ~crashed
    /\ display_error = 0
    /\ \/ client_state = "roundtrip"
       \/ client_state = "ready" /\ du_pc = "dispatching"

\* GlobalHandler without the wl_shell branch.
GlobalHandlerNoShell(interface, proxy) ==
    /\ shm' = IF interface = "wl_shm" THEN proxy ELSE shm
    /\ compositor' = IF interface = "wl_compositor" THEN proxy ELSE compositor
    /\ shell' = shell

\* Client::Impl::global_handler
GlobalHandler(interface, proxy) ==
    /\ shm' = IF interface = "wl_shm" THEN proxy ELSE shm
    /\ compositor' = IF interface = "wl_compositor" THEN proxy ELSE compositor
    /\ shell' = IF interface = "wl_shell" THEN proxy ELSE shell

\* The registry announces a global: global_handler runs, binding a new proxy
\* for the three well-known interfaces.
GlobalAnnounce ==
    /\ InDispatch
    /\ \E interface \in AnnouncedInterfaces :
        /\ interface \in WellKnownGlobals => Len(proxies) < MaxProxies
        /\ GlobalHandler(interface, Len(proxies) + 1)
        /\ proxies' = IF interface \in WellKnownGlobals
                      THEN Append(proxies, NewProxy(interface))
                      ELSE proxies
        /\ advertised' = IF client_state = "roundtrip"
                         THEN advertised \cup {interface}
                         ELSE advertised
    /\ UNCHANGED <<socket_call, client_state, display, registry, shell_surface, ctor_log, dtor_log,
                   client_error, shim_vars, server_vars, fault_vars, dispatch_vars,
                   surface_vars, buffer_vars, crashed>>

\* Client code outside a dispatch call: the body of a test.
InTestBody ==
    /\ ~crashed
    /\ client_state = "ready"
    /\ du_pc # "dispatching"

DestroyProxy(ps, p) ==
    IF p = 0 THEN ps ELSE [ps EXCEPT ![p].destroyed = @ + 1]

\* Client::Impl::~Impl
ClientDestroy ==
    /\ InTestBody
    /\ \A i \in 1..Len(surfaces) : surfaces[i].state = "destroyed"
    /\ buffer_state # "live"
    /\ proxies' = DestroyProxy(DestroyProxy(DestroyProxy(DestroyProxy(DestroyProxy(
                      proxies, shm), shell), compositor), registry), shell_surface)
    /\ dtor_log' = (IF shm # 0 THEN <<"wl_shm">> ELSE <<>>)
                   \o (IF shell # 0 THEN <<"wl_shell">> ELSE <<>>)
                   \o (IF compositor # 0 THEN <<"wl_compositor">> ELSE <<>>)
                   \o (IF registry # 0 THEN <<"wl_registry">> ELSE <<>>)
                   \o (IF shell_surface # 0 THEN <<"wl_shell_surface">> ELSE <<>>)
                   \o <<"disconnect">>
    /\ display' = "disconnected"
    /\ client_state' = "destroyed"
    /\ UNCHANGED <<socket_call, registry, shm, compositor, shell, shell_surface, ctor_log,
                   client_error, advertised,
                   shim_vars, server_vars, fault_vars, dispatch_vars,
                   surface_vars, buffer_vars, crashed>>

\* ----------------------------------------------------------- dispatch_until
\* The predicates the tests pass to dispatch_until.
Predicate(p) ==
    CASE p = "always" -> TRUE
      [] p = "never" -> FALSE
      [] p = "buffer_consumed" -> buffer_consumed

EvalResult(holds) == IF holds THEN "true" ELSE "false"

\* LoopTest with the condition negated: `while (predicate())`.
LoopTestNegated(holds) == IF holds THEN "dispatching" ELSE "returned"

\* `while (!predicate())`: leave the loop or enter wl_display_dispatch.
LoopTest(holds) == IF holds THEN "returned" ELSE "dispatching"

\* EnterLoop of a do-while loop: one dispatch before the first test.
EnterLoopDoWhile(holds) == "dispatching"

\* The first evaluation of `while (!predicate())`, before any dispatch.
EnterLoop(holds) == LoopTest(holds)

\* Client::dispatch_until is called: first evaluation of the loop condition.
DispatchUntil ==
    /\ InTestBody
    /\ \E p \in Predicates :
        /\ predicate' = p
        /\ last_eval' = EvalResult(Predicate(p))
        /\ du_pc' = EnterLoop(Predicate(p))
    /\ du_error' = NoError
    /\ call_cycles' = 0
    /\ call_faults' = 0
    /\ invoked_after_fault' = FALSE
    /\ UNCHANGED <<shim_vars, server_vars, client_vars, fault_vars,
                   surface_vars, buffer_vars, crashed>>

\* wl_display_dispatch returned >= 0: back to the loop condition.
DispatchOk ==
    /\ ~crashed
    /\ client_state = "ready"
    /\ du_pc = "dispatching"
    /\ display_error = 0
    /\ call_cycles < MaxCycles
    /\ call_cycles' = call_cycles + 1
    /\ last_eval' = EvalResult(Predicate(predicate))
    /\ du_pc' = LoopTest(Predicate(predicate))
    /\ UNCHANGED <<predicate, du_error, call_faults, invoked_after_fault,
                   shim_vars, server_vars, client_vars, fault_vars,
                   surface_vars, buffer_vars, crashed>>

\* OnDispatchFault swallowing the fault and dispatching again.
OnDispatchFaultRetry(error) == [pc |-> "dispatching", error |-> NoError]

\* What dispatch_until does when wl_display_dispatch returned < 0.
OnDispatchFault(error) == [pc |-> "raised", error |-> error]

\* wl_display_dispatch returned < 0: throw_wayland_error(display).
DispatchFault ==
    /\ ~crashed
    /\ client_state = "ready"
    /\ du_pc = "dispatching"
    /\ call_cycles < MaxCycles
    /\ \E fault \in Faults :
        /\ display_error' = FaultedError(fault)
        /\ protocol_error' = FaultedProtocolError(fault)
        /\ LET out == OnDispatchFault(ThrowWaylandError(display_error', protocol_error'))
           IN /\ du_pc' = out.pc
              /\ du_error' = out.error
    /\ call_cycles' = call_cycles + 1
    /\ call_faults' = call_faults + 1
    /\ UNCHANGED <<predicate, last_eval, invoked_after_fault, shim_vars, server_vars, client_vars,
                   surface_vars, buffer_vars, crashed>>

\* ----------------------------------------------------- wlcs::Surface::Impl
FrameFns == {"consume", "other"}

NewSurface == [state |-> "live"]

\* Surface::Impl::Impl
SurfaceCreate ==
    /\ InTestBody
    /\ compositor # 0
    /\ Len(surfaces) < MaxSurfaces
    /\ surfaces' = Append(surfaces, NewSurface)
    /\ UNCHANGED <<callbacks, pending_callback, buffer_consumed,
                   shim_vars, server_vars, client_vars, fault_vars, dispatch_vars,
                   buffer_vars, crashed>>

\* Client::Impl::create_visible_surface
CreateVisibleSurface ==
    /\ InTestBody
    /\ compositor # 0
    /\ shell # 0
    /\ Len(surfaces) < MaxSurfaces
    /\ surfaces' = Append(surfaces, NewSurface)
    /\ proxies' = Append(proxies, NewProxy("wl_shell_surface"))
    /\ shell_surface' = Len(proxies) + 1
    /\ UNCHANGED <<callbacks, pending_callback, buffer_consumed,
                   client_state, display, registry, shm, compositor, shell,
                   ctor_log, dtor_log, client_error, advertised, socket_call,
                   shim_vars, server_vars, fault_vars, dispatch_vars,
                   buffer_vars, crashed>>

\* The closure `holder` and the wl_callback it is the user data of.
NewCallback(s, fn) ==
    [surface |-> s, fn |-> fn, ran |-> "none", invoked |-> 0, freed |-> 0, destroyed |-> 0]

\* Surface::Impl::add_frame_callback
AddFrameCallback ==
    /\ InTestBody
    /\ Len(callbacks) < MaxCallbacks
    /\ \E s \in 1..Len(surfaces), fn \in FrameFns :
        /\ surfaces[s].state = "live"
        \* one frame request at a time per Surface (the caller serialises)
        /\ \A c \in 1..Len(callbacks) :
              callbacks[c].surface = s => callbacks[c].destroyed > 0
        /\ callbacks' = Append(callbacks, NewCallback(s, fn))
    /\ pending_callback' = Len(callbacks) + 1
    /\ UNCHANGED <<surfaces, buffer_consumed,
                   shim_vars, server_vars, client_vars, fault_vars, dispatch_vars,
                   buffer_vars, crashed>>

\* FrameCallback without `delete frame_callback`.
FrameCallbackLeaks(cbs, c) ==
    [cbs EXCEPT ![c].ran = cbs[c].fn,
                ![c].invoked = @ + 1,
                ![c].destroyed = @ + 1]

\* FrameCallback running the closure of the most recent request (the one the
\* static slot would name) instead of the closure passed as ctx.
FrameCallbackRunsLatest(cbs, c) ==
    [cbs EXCEPT ![c].ran = cbs[Len(cbs)].fn,
                ![c].invoked = @ + 1,
                ![c].destroyed = @ + 1,
                ![c].freed = @ + 1]

\* Surface::Impl::frame_callback(ctx, callback, frame_time): the static slot
\* is cleared, the closure behind ctx runs, then callback and closure go.
FrameCallback(cbs, c) ==
    [cbs EXCEPT ![c].ran = cbs[c].fn,
                ![c].invoked = @ + 1,
                ![c].destroyed = @ + 1,
                ![c].freed = @ + 1]

\* The compositor's done event for a wl_callback that still exists.
FrameDone ==
    /\ InDispatch
    /\ client_state = "ready"
    /\ \E c \in 1..Len(callbacks) :
        /\ callbacks[c].destroyed = 0
        /\ callbacks' = FrameCallback(callbacks, c)
        /\ buffer_consumed' = (buffer_consumed \/ callbacks'[c].ran = "consume")
    /\ pending_callback' = 0
    /\ invoked_after_fault' = (invoked_after_fault \/ call_faults > 0)
    /\ UNCHANGED <<du_pc, predicate, du_error, call_cycles, last_eval, call_faults,
                   surfaces, shim_vars, server_vars, client_vars, fault_vars,
                   buffer_vars, crashed>>

\* The `if (pending_callback)` block of Surface::Impl::~Impl.
ReleasePending(cbs, pc) ==
    IF pc = 0 THEN cbs
    ELSE [cbs EXCEPT ![pc].freed = @ + 1, ![pc].destroyed = @ + 1]

\* Surface::Impl::~Impl.  pending_callback is static and is not reset here:
\* when it names a wl_callback that was already destroyed, reading its user
\* data and deleting it is undefined: the process aborts or frees again.
SurfaceDestroy ==
    /\ InTestBody
    /\ \E s \in 1..Len(surfaces) :
        /\ surfaces[s].state = "live"
        /\ surfaces' = [surfaces EXCEPT ![s].state = "destroyed"]
    /\ IF pending_callback # 0 /\ callbacks[pending_callback].destroyed > 0
       THEN \/ crashed' = TRUE /\ UNCHANGED callbacks
            \/ crashed' = FALSE /\ callbacks' = ReleasePending(callbacks, pending_callback)
       ELSE crashed' = FALSE /\ callbacks' = ReleasePending(callbacks, pending_callback)
    /\ UNCHANGED <<pending_callback, buffer_consumed,
                   shim_vars, server_vars, client_vars, fault_vars, dispatch_vars,
                   buffer_vars>>

\* --------------------------------------------------- wlcs::ShmBuffer::Impl
\* ShmBuffer::Impl::Impl
BufferCreate ==
    /\ InTestBody
    /\ shm # 0
    /\ buffer_state = "none"
    /\ buffer_state' = "live"
    /\ UNCHANGED <<release_notifiers, notifiers_added, releases, last_release,
                   returned_false,
                   shim_vars, server_vars, client_vars, fault_vars, dispatch_vars,
                   surface_vars, crashed>>

\* ShmBuffer::Impl::~Impl
BufferDestroy ==
    /\ InTestBody
    /\ buffer_state = "live"
    /\ buffer_state' = "destroyed"
    /\ UNCHANGED <<release_notifiers, notifiers_added, releases, last_release,
                   returned_false,
                   shim_vars, server_vars, client_vars, fault_vars, dispatch_vars,
                   surface_vars, crashed>>

\* PushBack inserting at the front of the vector.
PushFront(notifiers, n) == <<n>> \o notifiers

\* release_notifiers.push_back(on_release)
PushBack(notifiers, n) == Append(notifiers, n)

\* ShmBuffer::Impl::add_release_listener
AddReleaseListener ==
    /\ InTestBody
    /\ buffer_state = "live"
    /\ notifiers_added < MaxNotifiers
    /\ release_notifiers' = PushBack(release_notifiers, notifiers_added + 1)
    /\ notifiers_added' = notifiers_added + 1
    /\ UNCHANGED <<buffer_state, releases, last_release, returned_false,
                   shim_vars, server_vars, client_vars, fault_vars, dispatch_vars,
                   surface_vars, crashed>>

RemoveAt(list, i) == SubSeq(list, 1, i - 1) \o SubSeq(list, i + 1, Len(list))

\* The first loop of on_release: the positions whose notifier returned false.
ExpiredNotifiers(list, returns) ==
    LET RECURSIVE Scan(_)
        Scan(i) == IF i > Len(list) THEN <<>>
                   ELSE (IF ~returns[i] THEN <<i>> ELSE <<>>) \o Scan(i + 1)
    IN Scan(1)

\* InvokedNotifiers erasing an expired notifier inside the pass and then
\* stepping the iterator: the element that moved into its place is skipped.
InvokedNotifiersEraseInPass(list, returns) ==
    LET RECURSIVE Visit(_, _)
        Visit(pos, i) ==
            IF i > Len(pos) THEN <<>>
            ELSE <<list[pos[i]]>> \o
                 (IF ~returns[pos[i]] THEN Visit(RemoveAt(pos, i), i + 1)
                  ELSE Visit(pos, i + 1))
    IN Visit([k \in 1..Len(list) |-> k], 1)

\* The first loop of on_release: the notifiers it calls, in the order of the
\* calls.  Nothing is erased during the pass, whatever the notifiers return.
InvokedNotifiers(list, returns) ==
    LET RECURSIVE Visit(_)
        Visit(i) == IF i > Len(list) THEN <<>>
                    ELSE <<list[i]>> \o Visit(i + 1)
    IN Visit(1)

\* std::vector::erase(position) with a position recorded before earlier
\* erasures: elements have shifted left under it, and a position at or past
\* end() drops the last element (no element is moved, the size shrinks by one).
Erase(list, i) ==
    IF i <= Len(list) THEN RemoveAt(list, i) ELSE RemoveAt(list, Len(list))

\* The second loop of on_release.
RECURSIVE EraseExpired(_, _)
EraseExpired(list, expired) ==
    IF expired = <<>> THEN list
    ELSE EraseExpired(Erase(list, Head(expired)), Tail(expired))

\* ShmBuffer::Impl::on_release.  Every erase invalidates the positions
\* recorded after it, so with two or more expired notifiers the second loop
\* is undefined: the stale positions are used as they are, or the process
\* aborts (checked iterators).
BufferRelease ==
    /\ InDispatch
    /\ client_state = "ready"
    /\ buffer_state = "live"
    /\ releases < MaxReleases
    /\ \E returns \in [1..Len(release_notifiers) -> BOOLEAN] :
        LET expired == ExpiredNotifiers(release_notifiers, returns)
            after == EraseExpired(release_notifiers, expired)
        IN /\ \/ /\ crashed' = FALSE
                 /\ release_notifiers' = after
              \/ /\ Len(expired) >= 2
                 /\ crashed' = TRUE
                 /\ UNCHANGED release_notifiers
           /\ last_release' = [before |-> release_notifiers,
                               returns |-> returns,
                               invoked |-> InvokedNotifiers(release_notifiers, returns),
                               after |-> release_notifiers']
           /\ returned_false' = returned_false \cup
                  {release_notifiers[i] : i \in {j \in 1..Len(release_notifiers) : ~returns[j]}}
    /\ releases' = releases + 1
    /\ UNCHANGED <<buffer_state, notifiers_added,
                   shim_vars, server_vars, client_vars, fault_vars, dispatch_vars,
                   surface_vars>>

\* -------------------------------------------------------------------- spec
NoRelease == [before |-> <<>>, returns |-> <<>>, invoked |-> <<>>, after |-> <<>>]

Init ==
    /\ has_start \in BOOLEAN
    /\ has_stop \in BOOLEAN
    /\ has_create_socket \in BOOLEAN
    /\ server_state = "unborn"
    /\ server_log = <<>>
    /\ server_error = NoError
    /\ client_state = "none"
    /\ display = "null"
    /\ display_error = 0
    /\ protocol_error = [interface |-> "none", code |-> 0]
    /\ proxies = <<>>
    /\ registry = 0
    /\ shm = 0
    /\ compositor = 0
    /\ shell = 0
    /\ shell_surface = 0
    /\ ctor_log = <<>>
    /\ dtor_log = <<>>
    /\ client_error = NoError
    /\ advertised = {}
    /\ socket_call = NoSocketCall
    /\ du_pc = "idle"
    /\ predicate = "always"
    /\ du_error = NoError
    /\ call_cycles = 0
    /\ last_eval = "none"
    /\ call_faults = 0
    /\ invoked_after_fault = FALSE
    /\ surfaces = <<>>
    /\ callbacks = <<>>
    /\ pending_callback = 0
    /\ buffer_consumed = FALSE
    /\ buffer_state = "none"
    /\ release_notifiers = <<>>
    /\ notifiers_added = 0
    /\ releases = 0
    /\ last_release = NoRelease
    /\ returned_false = {}
    /\ crashed = FALSE

\* A test body that has a ready Client: the server was constructed and
\* started, the Client connected over the server's socket, and the initial
\* round-trip announced and bound the three well-known globals.
InitReady ==
    /\ has_start = TRUE
    /\ has_stop = TRUE
    /\ has_create_socket = TRUE
    /\ server_state = "started"
    /\ server_log = <<"create", "start">>
    /\ server_error = NoError
    /\ client_state = "ready"
    /\ display = "live"
    /\ display_error = 0
    /\ protocol_error = [interface |-> "none", code |-> 0]
    /\ proxies = <<NewProxy("wl_registry"), NewProxy("wl_shm"),
                   NewProxy("wl_compositor"), NewProxy("wl_shell")>>
    /\ registry = 1
    /\ shm = 2
    /\ compositor = 3
    /\ shell = 4
    /\ shell_surface = 0
    /\ ctor_log = <<"connect_fd", "get_registry", "add_listener", "roundtrip">>
    /\ dtor_log = <<>>
    /\ client_error = NoError
    /\ advertised = WellKnownGlobals
    /\ socket_call = [called |-> TRUE, fd |-> ValidFd, errno |-> 0]
    /\ du_pc = "idle"
    /\ predicate = "always"
    /\ du_error = NoError
    /\ call_cycles = 0
    /\ last_eval = "none"
    /\ call_faults = 0
    /\ invoked_after_fault = FALSE
    /\ surfaces = <<>>
    /\ callbacks = <<>>
    /\ pending_callback = 0
    /\ buffer_consumed = FALSE
    /\ buffer_state = "none"
    /\ release_notifiers = <<>>
    /\ notifiers_added = 0
    /\ releases = 0
    /\ last_release = NoRelease
    /\ returned_false = {}
    /\ crashed = FALSE

\* The fixture, Client construction and destruction, and the dispatch loop.
NextHarness ==
    \/ ServerConstruct
    \/ SetUp
    \/ TearDown
    \/ ServerDestroy
    \/ ClientConstruct
    \/ RoundtripOk
    \/ RoundtripFault
    \/ GlobalAnnounce
    \/ ClientDestroy
    \/ DispatchUntil
    \/ DispatchOk
    \/ DispatchFault

SpecHarness == Init /\ [][NextHarness]_vars

\* Surfaces and their frame callbacks under the dispatch loop.
NextSurface ==
    \/ DispatchUntil
    \/ DispatchOk
    \/ DispatchFault
    \/ SurfaceCreate
    \/ AddFrameCallback
    \/ FrameDone
    \/ SurfaceDestroy

SpecSurface == InitReady /\ [][NextSurface]_vars

\* A ready Client's protocol objects: later announcements, visible surfaces
\* and the Client's destruction.
NextClient ==
    \/ DispatchUntil
    \/ DispatchOk
    \/ DispatchFault
    \/ GlobalAnnounce
    \/ CreateVisibleSurface
    \/ SurfaceDestroy
    \/ ClientDestroy

SpecClient == InitReady /\ [][NextClient]_vars

\* One ShmBuffer and its release listeners under the dispatch loop.
NextBuffer ==
    \/ DispatchUntil
    \/ DispatchOk
    \/ DispatchFault
    \/ BufferCreate
    \/ BufferDestroy
    \/ AddReleaseListener
    \/ BufferRelease

SpecBuffer == InitReady /\ [][NextBuffer]_vars

\* ================================================================= claims

\* What throw_wayland_error must raise for the display's reported fault.
Translated(error) ==
    /\ display_error = EPROTO =>
         /\ error.kind = "ProtocolError"
         /\ error.interface = protocol_error.interface
         /\ error.code = protocol_error.code
    /\ display_error # EPROTO =>
         /\ error.kind = "system_error"
         /\ error.code = display_error

\* The constructor got as far as server_roundtrip() and that call faulted.
RoundtripFaulted == client_state = "failed" /\ Len(ctor_log) = 3

\* C1: dispatch_until returns normally only when its predicate evaluated to
\* true at the moment of return, and every dispatch cycle it performs is
\* preceded by an evaluation of the predicate that yielded false.
C1_ReturnsOnlyWhenPredicateTrue ==
    /\ du_pc = "returned" => last_eval = "true" /\ Predicate(predicate)
    /\ du_pc = "dispatching" => last_eval = "false"

C1_Witness ==
    /\ du_pc = "returned"
    /\ predicate = "buffer_consumed"
    /\ call_cycles >= 1

\* C2: a faulting dispatch cycle or round-trip raises a ProtocolError with
\* the reported interface and code when the display's error is EPROTO, and
\* the generic system error wrapping the error code otherwise.
C2_FaultTranslation ==
    /\ du_pc = "raised" => Translated(du_error)
    /\ RoundtripFaulted => Translated(client_error)

C2_Witness ==
    /\ du_pc = "raised"
    /\ display_error = EPROTO
    /\ du_error = ProtocolError("wl_buffer", 1)

\* The subscriptions of `list` whose notifier returned true, in order.
Kept(list, returns) ==
    LET RECURSIVE Keep(_)
        Keep(i) == IF i > Len(list) THEN <<>>
                   ELSE (IF returns[i] THEN <<list[i]>> ELSE <<>>) \o Keep(i + 1)
    IN Keep(1)

\* C3: after one release event the subscription list holds exactly the
\* subscriptions that returned true, in their original relative order.
C3_ReleaseKeepsTrueSubscriptions ==
    releases > 0 =>
        /\ ~crashed
        /\ last_release.after = Kept(last_release.before, last_release.returns)

\* C4: a Surface without an outstanding frame callback owns no closure, and
\* the closure of a frame request is released exactly once when its Surface
\* is destroyed before completion: not leaked, not freed twice, and no
\* Surface destruction frees a closure or callback that was already released.
C4_ClosureReleasedExactlyOnce ==
    /\ ~crashed
    /\ \A c \in 1..Len(callbacks) :
        /\ callbacks[c].freed <= 1
        /\ callbacks[c].destroyed <= 1
        /\ surfaces[callbacks[c].surface].state = "destroyed" => callbacks[c].freed = 1

C6_FaultEndsDispatchUntil ==
    /\ call_faults <= 1
    /\ call_faults = 1 =>
         /\ du_pc = "raised"
         /\ Translated(du_error)
         /\ ~invoked_after_fault
    /\ du_pc = "raised" => call_faults = 1

C6_Witness ==
    /\ du_pc = "raised"
    /\ predicate = "buffer_consumed"
    /\ ~buffer_consumed
    /\ du_error = ProtocolError("wl_buffer", 1)
    /\ \E c \in 1..Len(callbacks) :
        callbacks[c].fn = "consume" /\ callbacks[c].invoked = 0 /\ callbacks[c].destroyed = 0

\* C7 as stated: without the optional create-client-socket operation the
\* constructor falls back to the ambient connection, never raises the
\* not-implemented error, and fails only if that connection is not live.
C7_FallbackFailsOnlyWithoutConnection ==
    ~has_create_socket =>
        /\ client_error # ShimNotImplemented
        /\ ctor_log # <<>> => ctor_log[1] = "connect_ambient"
        /\ client_state = "failed" => display = "null"

\* C7 amended: ... and fails only if the ambient connection is not live or
\* the initial round-trip faults.
C7_FallbackToAmbient ==
    ~has_create_socket =>
        /\ client_error # ShimNotImplemented
        /\ ~socket_call.called
        /\ ctor_log # <<>> => ctor_log[1] = "connect_ambient"
        /\ client_state \notin {"none", "failed"} => ctor_log # <<>>
        /\ client_state = "failed" =>
             \/ display = "null" /\ client_error = RuntimeError
                                 /\ ctor_log = <<"connect_ambient">>
             \/ RoundtripFaulted /\ Translated(client_error)

C7_Witness ==
    /\ ~has_create_socket
    /\ client_state = "ready"
    /\ ctor_log[1] = "connect_ambient"

\* C8: a negative descriptor from the shim's create-client-socket makes
\* construction fail with the system error carrying errno: no fallback to
\* the ambient connection, no registry, no round-trip.
C8_InvalidDescriptorIsFatal ==
    socket_call.called /\ socket_call.fd < 0 =>
        /\ client_state = "failed"
        /\ client_error = SystemError(socket_call.errno)
        /\ ctor_log = <<>>
        /\ display = "null"
        /\ registry = 0
        /\ proxies = <<>>

C8_Witness ==
    /\ socket_call.called
    /\ socket_call.fd < 0
    /\ client_error = SystemError(EPIPE)

\* The slot of the bound-global table for a well-known interface.
BoundGlobal(interface) ==
    CASE interface = "wl_shm" -> shm
      [] interface = "wl_compositor" -> compositor
      [] interface = "wl_shell" -> shell

\* C9: a Client is ready only after connect, get registry, add listener and
\* one round-trip completed without fault; a faulting initial round-trip
\* leaves no Client; every well-known global announced during that
\* round-trip is bound.
C9_ReadyAfterInitialRoundtrip ==
    /\ client_state \in {"ready", "destroyed"} =>
         /\ ctor_log \in {<<c, "get_registry", "add_listener", "roundtrip">> :
                              c \in {"connect_fd", "connect_ambient"}}
         /\ client_error = NoError
         /\ registry # 0
         /\ \A g \in advertised \cap WellKnownGlobals :
              BoundGlobal(g) # 0 /\ proxies[BoundGlobal(g)].type = g
    /\ client_state = "ready" => display = "live"
    /\ client_state = "failed" =>
         /\ client_error # NoError
         /\ \A i \in 1..Len(ctor_log) : ctor_log[i] # "roundtrip"

C9_Witness ==
    /\ client_state = "ready"
    /\ WellKnownGlobals \subseteq advertised
    /\ "wl_output" \in advertised

\* C10: Server construction fails with a setup error when the start or the
\* stop operation is missing, start() and stop() are never invoked on such
\* a Server, and the shim instance already created is destroyed exactly once.
C10_MandatoryOperationsValidated ==
    ~has_start \/ ~has_stop =>
        /\ server_state \in {"unborn", "failed"}
        /\ \A i \in 1..Len(server_log) : server_log[i] \notin {"start", "stop"}
        /\ server_state = "failed" =>
             /\ server_error = LogicError
             /\ server_log = <<"create", "destroy">>

C10_Witness ==
    /\ has_start
    /\ ~has_stop
    /\ server_state = "failed"

\* A step that handles callback c for its own Surface: c completes, or the
\* Surface that requested c is destroyed.
OwnStep(c) ==
    \/ callbacks'[c].invoked # callbacks[c].invoked
    \/ /\ surfaces[callbacks[c].surface].state = "live"
       /\ surfaces'[callbacks[c].surface].state = "destroyed"

\* C11: the pending-callback slot belongs to one Surface: a frame request,
\* completion or destruction of one Surface never changes the slot that holds
\* another Surface's outstanding callback, and never frees or destroys
\* another Surface's callback object or closure.
C11_PendingSlotPerSurface ==
    [][\A c \in 1..Len(callbacks) :
        /\ (\/ callbacks'[c].freed # callbacks[c].freed
            \/ callbacks'[c].destroyed # callbacks[c].destroyed) => OwnStep(c)
        /\ (/\ pending_callback = c
            /\ callbacks[c].destroyed = 0
            /\ pending_callback' # c) => OwnStep(c)]_vars

\* The subscriptions currently in the list, as a set.
Subscribed == {release_notifiers[i] : i \in 1..Len(release_notifiers)}

\* C12: a subscription is invoked on a release event if and only if it was
\* added before the event and returned true on every earlier release event:
\* the list a release event walks holds exactly the subscriptions added so
\* far that never returned false.
C12_InvokedIffNeverReturnedFalse ==
    /\ ~crashed
    /\ Subscribed = (1..notifiers_added) \ returned_false
    /\ releases > 0 =>
         {last_release.invoked[i] : i \in 1..Len(last_release.invoked)}
             = {last_release.before[i] : i \in 1..Len(last_release.before)}

\* C13: during one release event every subscription present at the start of
\* the firing pass is invoked exactly once, in insertion order: none is
\* skipped or visited twice because of removals.
C13_FiringPassVisitsEachOnce ==
    releases > 0 => last_release.invoked = last_release.before

C13_Witness ==
    /\ releases > 0
    /\ Len(last_release.before) = 3
    /\ ~last_release.returns[1]
    /\ last_release.returns[2]
    /\ ~last_release.returns[3]
    /\ last_release.invoked = last_release.before

\* C20: add_release_listener appends the new subscription at the end of the
\* list, leaves the existing subscriptions and their order unchanged, and
\* invokes no subscription.
C20_AddReleaseListenerAppends ==
    [][notifiers_added' # notifiers_added =>
        /\ notifiers_added' = notifiers_added + 1
        /\ Len(release_notifiers') = Len(release_notifiers) + 1
        /\ SubSeq(release_notifiers', 1, Len(release_notifiers)) = release_notifiers
        /\ release_notifiers'[Len(release_notifiers')] = notifiers_added'
        /\ releases' = releases
        /\ last_release' = last_release
        /\ returned_false' = returned_false]_vars

C20_Witness ==
    /\ releases > 0
    /\ release_notifiers = <<2, 3>>
    /\ last_release.before = <<1, 2>>

\* C14: destroying a Surface with an outstanding frame callback releases the
\* callback's closure and destroys the callback object, and the callback
\* given to add_frame_callback is never invoked once its Surface is gone.
C14_DestroyReleasesOwnCallback ==
    [][/\ \A c \in 1..Len(callbacks') :
            surfaces'[callbacks'[c].surface].state = "destroyed" =>
                callbacks'[c].freed >= 1 /\ callbacks'[c].destroyed >= 1
       /\ \A c \in 1..Len(callbacks) :
            callbacks'[c].invoked # callbacks[c].invoked =>
                surfaces[callbacks[c].surface].state = "live"]_vars

\* C16: every add_frame_callback makes one request, and the callback that
\* runs when a callback object completes is the one supplied by the call
\* that created that object, also with several requests outstanding.
C16_CompletionRunsOwnCallback ==
    /\ \A c \in 1..Len(callbacks) :
        /\ callbacks[c].invoked = 0 => callbacks[c].ran = "none"
        /\ callbacks[c].invoked >= 1 => callbacks[c].ran = callbacks[c].fn
    /\ buffer_consumed <=>
         \E c \in 1..Len(callbacks) :
            callbacks[c].invoked >= 1 /\ callbacks[c].fn = "consume"

\* Two requests with different callbacks were outstanding together and the
\* older one completed first.
C16_Witness ==
    /\ Len(callbacks) = 2
    /\ callbacks[1].fn = "other"
    /\ callbacks[2].fn = "consume"
    /\ callbacks[1].invoked = 1
    /\ callbacks[2].invoked = 0
    /\ callbacks[2].destroyed = 0
    /\ pending_callback = 0
    /\ ~buffer_consumed

\* A step that is a call of dispatch_until.
CallStep == du_pc # "dispatching" /\ dispatch_vars' # dispatch_vars

\* C17: called with a predicate that is already true, dispatch_until returns
\* at once: no dispatch cycle, no listener invoked, and no error even when
\* the connection is already faulted.
C17_TruePredicateReturnsAtOnce ==
    [][CallStep /\ Predicate(predicate') =>
        /\ du_pc' = "returned"
        /\ call_cycles' = 0
        /\ call_faults' = 0
        /\ du_error' = NoError
        /\ UNCHANGED <<client_vars, fault_vars, surface_vars, buffer_vars, crashed>>]_vars

C17_Witness ==
    /\ du_pc = "returned"
    /\ predicate = "always"
    /\ call_cycles = 0
    /\ display_error = EPROTO
    /\ du_error = NoError

\* The calls the fixture makes on the shim, in order.
FixtureLog == <<"create", "start", "stop", "destroy">>

\* C19: in the fixture lifecycle the server is started once (SetUp) and
\* stopped once (TearDown), start comes before stop, and the shim instance
\* is destroyed only after stop.
C19_FixtureLifecycle ==
    /\ server_state = "constructed" => server_log = SubSeq(FixtureLog, 1, 1)
    /\ server_state = "started" => server_log = SubSeq(FixtureLog, 1, 2)
    /\ server_state = "stopped" => server_log = SubSeq(FixtureLog, 1, 3)
    /\ server_state = "destroyed" => server_log = FixtureLog

C19_Witness ==
    /\ server_state = "destroyed"
    /\ client_state = "destroyed"
    /\ server_log = FixtureLog

\* C15: each of the three well-known globals is bound the first time it is
\* announced, so a bound slot is never written again; an announcement that
\* binds nothing leaves the bound-global table unchanged.
C15_GlobalsBoundOnce ==
    [][/\ shm # 0 => shm' = shm
       /\ compositor # 0 => compositor' = compositor
       /\ shell # 0 => shell' = shell
       /\ proxies' = proxies => UNCHANGED <<shm, compositor, shell>>]_vars

\* C18: after Client destruction every protocol object the Client created
\* (bound globals, registry, shell surfaces) has been destroyed exactly once,
\* and the display was disconnected after all of them.
C18_ClientDestroysAllItCreated ==
    client_state = "destroyed" =>
        /\ \A p \in 1..Len(proxies) : proxies[p].destroyed = 1
        /\ dtor_log # <<>>
        /\ dtor_log[Len(dtor_log)] = "disconnect"
        /\ \A i \in 1..(Len(dtor_log) - 1) : dtor_log[i] # "disconnect"
        /\ display = "disconnected"

====
